---- MODULE Spec2Model ----
(***************************************************************************)
(* A model of the BloodHound API client (bloodhound_agent.bloodhound):     *)
(* the Cypher query component CypherClient.run_query and                   *)
(* CypherClient.run_query_with_retry over the signed transport primitive   *)
(* BloodhoundBaseClient._request, with the exception types of base.py.     *)
(*                                                                         *)
(* An HTTP exchange is an input of the model: the remote end either        *)
(* answers with a response (status code, body text) or the HTTP library    *)
(* raises one of its transport exceptions.                                 *)
(***************************************************************************)
EXTENDS Integers, Sequences, FiniteSets, TLC

\* Largest max_retries a caller passes in the model.
MaxRetriesBound == 3

\* -------------------------------------------------------------------------
\* Python values
\* -------------------------------------------------------------------------

\* Python's None, for an optional attribute: the attribute is a set holding
\* its value, and the empty set when it is None.
None == {}

Some(v) == {v}

\* dict.get(k, default) on a dict modelled as a function from its keys.
DictGet(d, k, default) == IF k \in DOMAIN d THEN d[k] ELSE default

\* The dict with no key, {} in Python: the function with the empty domain.
PyEmptyDict == <<>>

\* The literal {"nodes": [], "edges": []} of run_query's 404 branch.
EmptyGraph == [nodes |-> <<>>, edges |-> <<>>]

\* A graph the server sends as the `data` field of a 200 body.
SomeGraph == [nodes |-> <<"n1", "n2">>, edges |-> <<"e1">>]

Max(a, b) == IF a >= b THEN a ELSE b

\* -------------------------------------------------------------------------
\* The HTTP exchange: what requests.request(...) gives back
\* -------------------------------------------------------------------------

\* Response bodies: a JSON object with `data`, a JSON object with no key,
\* a JSON object with `error`, a JSON array, and text that is not JSON.
BodyData == "{\"data\": {\"nodes\": [\"n1\", \"n2\"], \"edges\": [\"e1\"]}}"
BodyEmptyObject == "{}"
BodyError == "{\"error\": \"boom\"}"
BodyArray == "[]"
BodyNotJson == "<html>"

Bodies == {BodyData, BodyEmptyObject, BodyError, BodyArray, BodyNotJson}

\* Status codes: the ones run_query names, one of each other class
\* (another 2xx, a 3xx, another 4xx, two 5xx, and one above 599).
Statuses == {200, 201, 304, 400, 401, 403, 404, 418, 429, 500, 503, 600}

Response(status, body) == [status_code |-> status, body |-> body]

Responses == {Response(s, b) : s \in Statuses, b \in Bodies}

\* The transport exceptions of the HTTP library and their base classes
\* (requests.exceptions): each is a RequestException.
TransportExceptions == {"ConnectionError", "ConnectTimeout", "ReadTimeout", "TooManyRedirects"}

Bases(cls) ==
    CASE cls = "ConnectionError" -> {"ConnectionError", "RequestException"}
      [] cls = "ConnectTimeout" -> {"ConnectTimeout", "ConnectionError", "Timeout", "RequestException"}
      [] cls = "ReadTimeout" -> {"ReadTimeout", "Timeout", "RequestException"}
      [] cls = "TooManyRedirects" -> {"TooManyRedirects", "RequestException"}
      [] OTHER -> {cls}

IsInstance(exc, cls) == cls \in Bases(exc.type)

\* One exchange: the server's response, or the exception the library raises.
Exchanges ==
    {[kind |-> "response", response |-> r] : r \in Responses}
    \cup {[kind |-> "exception", cls |-> c] : c \in TransportExceptions}

\* response.json(): the decoded body, or JSONDecodeError.
\* A decoded object is a function from its keys; `t` tells dict from list.
ResponseJson(r) ==
    CASE r.body = BodyData -> [ok |-> TRUE, t |-> "dict", v |-> [data |-> SomeGraph]]
      [] r.body = BodyEmptyObject -> [ok |-> TRUE, t |-> "dict", v |-> PyEmptyDict]
      [] r.body = BodyError -> [ok |-> TRUE, t |-> "dict", v |-> [error |-> "boom"]]
      [] r.body = BodyArray -> [ok |-> TRUE, t |-> "list", v |-> <<>>]
      [] OTHER -> [ok |-> FALSE, t |-> "JSONDecodeError", v |-> <<>>]

\* bool(response): requests.Response.__bool__ is Response.ok, which is
\* False exactly when raise_for_status() raises, i.e. 400 <= status < 600.
ResponseTruthy(r) == ~(400 <= r.status_code /\ r.status_code < 600)

\* -------------------------------------------------------------------------
\* base.py: the exception types
\* -------------------------------------------------------------------------

\* An outcome of a call: it returns a value or raises an exception.
Return(v) == [kind |-> "return", value |-> v]
Raise(e) == [kind |-> "raise", exc |-> e]

\* BloodhoundAPIError.__init__: status_code is taken from the response only
\* when the response is truthy.
BloodhoundAPIError(message, response) ==
    [type |-> "BloodhoundAPIError",
     message |-> message,
     response |-> response,
     status_code |-> IF ResponseTruthy(response)
                     THEN Some(response.status_code) ELSE None]

BloodhoundConnectionError(message) ==
    [type |-> "BloodhoundConnectionError", message |-> message]

\* An exception of the HTTP library, as raised by requests.request.
TransportError(cls) == [type |-> cls, message |-> cls]

\* An exception of the interpreter (AttributeError, TypeError).
PyError(cls, message) == [type |-> cls, message |-> message]

\* -------------------------------------------------------------------------
\* base.py: BloodhoundBaseClient._request (the transport part)
\* -------------------------------------------------------------------------

\* _request: requests.request under `except requests.exceptions.ConnectionError`.
\* x is the exchange; any other exception of the library passes through.
_request(x) ==
    IF x.kind = "exception"
    THEN IF IsInstance(TransportError(x.cls), "ConnectionError")
         THEN Raise(BloodhoundConnectionError(
                  "Failed to connect to BloodHound API: " \o x.cls))
         ELSE Raise(TransportError(x.cls))
    ELSE Return(x.response)

\* -------------------------------------------------------------------------
\* base.py: BloodhoundBaseClient.__init__ (credentials)
\* -------------------------------------------------------------------------

\* bool(v) of an optional string: None and "" are falsy.
Truthy(v) == v # None /\ v # Some("")

\* `a or b` on optional strings.
PyOr(a, b) == IF Truthy(a) THEN a ELSE b

\* os.getenv(name): the environment is a function from the names it sets.
GetEnv(env, name) == IF name \in DOMAIN env THEN Some(env[name]) ELSE None

\* The value of an optional attribute that is not None.
The(v) == CHOOSE e \in v : TRUE

BloodhoundAuthError(message) == [type |-> "BloodhoundAuthError", message |-> message]

\* Mutant of BaseClientInit: the token key is not checked.
BaseClientInitNoKeyCheck(a, env) ==
    LET domain == PyOr(a.domain, GetEnv(env, "BLOODHOUND_DOMAIN"))
        token_id == PyOr(a.token_id, GetEnv(env, "BLOODHOUND_TOKEN_ID"))
        token_key == PyOr(a.token_key, GetEnv(env, "BLOODHOUND_TOKEN_KEY"))
    IN  IF ~Truthy(domain)
        THEN Raise(BloodhoundAuthError("BloodHound domain must be provided either directly or via BLOODHOUND_DOMAIN environment variable"))
        ELSE IF ~Truthy(token_id)
        THEN Raise(BloodhoundAuthError("API token ID must be provided either directly or via BLOODHOUND_TOKEN_ID environment variable"))
        ELSE Return([scheme |-> a.scheme,
                     domain |-> The(domain),
                     port |-> a.port,
                     token_id |-> The(token_id),
                     token_key |-> IF token_key = None THEN "" ELSE The(token_key)])

\* BloodhoundBaseClient(domain, token_id, token_key, port, scheme) under the
\* environment env: the client's attributes, or BloodhoundAuthError.
BaseClientInit(a, env) ==
    LET domain == PyOr(a.domain, GetEnv(env, "BLOODHOUND_DOMAIN"))
        token_id == PyOr(a.token_id, GetEnv(env, "BLOODHOUND_TOKEN_ID"))
        token_key == PyOr(a.token_key, GetEnv(env, "BLOODHOUND_TOKEN_KEY"))
    IN  IF ~Truthy(domain)
        THEN Raise(BloodhoundAuthError("BloodHound domain must be provided either directly or via BLOODHOUND_DOMAIN environment variable"))
        ELSE IF ~Truthy(token_id)
        THEN Raise(BloodhoundAuthError("API token ID must be provided either directly or via BLOODHOUND_TOKEN_ID environment variable"))
        ELSE IF ~Truthy(token_key)
        THEN Raise(BloodhoundAuthError("API token key must be provided either directly or via BLOODHOUND_TOKEN_KEY environment variable"))
        ELSE Return([scheme |-> a.scheme,
                     domain |-> The(domain),
                     port |-> a.port,
                     token_id |-> The(token_id),
                     token_key |-> The(token_key)])

\* -------------------------------------------------------------------------
\* base.py: BloodhoundBaseClient._format_url and the signature of _request
\* -------------------------------------------------------------------------

\* _format_url (lines 90-96): one leading "/" of the URI is dropped.
_format_url(c, uri) ==
    LET formatted_uri == IF Len(uri) > 0 /\ Head(uri) = "/" THEN Tail(uri) ELSE uri
    IN  c.scheme \o "://" \o c.domain \o ":" \o ToString(c.port) \o "/" \o formatted_uri

\* HMAC-SHA-256 of msg under key, as a term: equal digests have equal
\* key and message. (str.encode() of the ASCII text of the model is the
\* same characters as bytes.)
Hmac(key, msg) == [key |-> key, msg |-> msg]

\* base64.b64encode(digest)
B64(digest) == [b64 |-> digest]

\* Mutant of DateKey: the date without the hour.
DateKeyDay(datetime_formatted) == SubSeq(datetime_formatted, 1, 10)

\* datetime_formatted[:13] (line 123)
DateKey(datetime_formatted) ==
    SubSeq(datetime_formatted, 1, IF Len(datetime_formatted) < 13
                                  THEN Len(datetime_formatted) ELSE 13)

\* Mutant of Signature: the token id is signed with the method and URI.
SignatureWithTokenId(c, method, uri, body, datetime_formatted) ==
    LET digest1 == Hmac(c.token_key, c.token_id \o method \o uri)
        digest2 == Hmac(digest1, DateKey(datetime_formatted))
        digest3 == Hmac(digest2, IF body # None THEN The(body) ELSE "")
    IN  B64(digest3)

\* The chain of three digests (lines 112-130) and its base64 (line 141).
Signature(c, method, uri, body, datetime_formatted) ==
    LET digest1 == Hmac(c.token_key, method \o uri)
        digest2 == Hmac(digest1, DateKey(datetime_formatted))
        digest3 == Hmac(digest2, IF body # None THEN The(body) ELSE "")
    IN  B64(digest3)

\* What _request hands to requests.request (lines 134-145).
SignedRequest(c, method, uri, body, datetime_formatted) ==
    [method |-> method,
     url |-> _format_url(c, uri),
     headers |-> ("User-Agent" :> "bloodhound-api-client 0.1"
                  @@ "Authorization" :> "bhesignature " \o c.token_id
                  @@ "RequestDate" :> datetime_formatted
                  @@ "Signature" :> Signature(c, method, uri, body, datetime_formatted)
                  @@ "Content-Type" :> "application/json"),
     data |-> body]

\* One call of _request, for the history: its arguments, the clock it read
\* (line 122) and the HTTP request it handed to requests.request.
Dispatch(c, method, uri, body, datetime_formatted) ==
    [client |-> c,
     method |-> method,
     uri |-> uri,
     body |-> body,
     datetime_formatted |-> datetime_formatted,
     request |-> SignedRequest(c, method, uri, body, datetime_formatted)]

\* -------------------------------------------------------------------------
\* base.py: BloodhoundBaseClient.request
\* -------------------------------------------------------------------------

\* A dict argument (params, data) is the sequence of its <<key, value>> items
\* in insertion order; a value is [str |-> s], [int |-> n] or [bool |-> b].

\* str(value), as the f-string of line 172 formats it.
PyStr(v) ==
    IF "str" \in DOMAIN v THEN v.str
    ELSE IF "int" \in DOMAIN v THEN ToString(v.int)
    ELSE IF v.bool THEN "True" ELSE "False"

\* '&'.join(param_strings) over the items from index i on (lines 170-173).
RECURSIVE JoinParams(_, _)
JoinParams(items, i) ==
    IF i > Len(items) THEN ""
    ELSE items[i][1] \o "=" \o PyStr(items[i][2])
         \o (IF i < Len(items) THEN "&" ELSE "") \o JoinParams(items, i + 1)

\* Mutant of RequestUri: the pairs are appended without the "?".
RequestUriNoMark(uri, params) ==
    IF params # None /\ The(params) # <<>>
    THEN uri \o JoinParams(The(params), 1)
    ELSE uri

\* `if params:` ... uri = f"{uri}?{'&'.join(param_strings)}" (lines 169-173).
RequestUri(uri, params) ==
    IF params # None /\ The(params) # <<>>
    THEN uri \o "?" \o JoinParams(The(params), 1)
    ELSE uri

RECURSIVE JsonStrings(_, _)
\* json.dumps of the strings of a list from index i on, with ", " between.
JsonStrings(list, i) ==
    IF i > Len(list) THEN ""
    ELSE "\"" \o list[i] \o "\"" \o (IF i < Len(list) THEN ", " ELSE "") \o JsonStrings(list, i + 1)

\* json.dumps of a value: a quoted string, a number, true or false, or a
\* list of strings ([list |-> l]).
JsonValue(v) ==
    IF "list" \in DOMAIN v THEN "[" \o JsonStrings(v.list, 1) \o "]"
    ELSE IF "str" \in DOMAIN v THEN "\"" \o v.str \o "\""
    ELSE IF "int" \in DOMAIN v THEN ToString(v.int)
    ELSE IF v.bool THEN "true" ELSE "false"

RECURSIVE JsonItems(_, _)
JsonItems(items, i) ==
    IF i > Len(items) THEN ""
    ELSE "\"" \o items[i][1] \o "\": " \o JsonValue(items[i][2])
         \o (IF i < Len(items) THEN ", " ELSE "") \o JsonItems(items, i + 1)

\* json.dumps(data) of a dict, in insertion order with ", " and ": ".
JsonDumps(items) == "{" \o JsonItems(items, 1) \o "}"

\* `body = None; if data: body = json.dumps(data).encode("utf8")` (lines 176-178).
RequestBody(data) ==
    IF data # None /\ The(data) # <<>>
    THEN Some(JsonDumps(The(data)))
    ELSE None

\* Mutant of RaiseForStatus: every status outside 200..299.
RaiseForStatusNot2xx(r) == ~(200 <= r.status_code /\ r.status_code < 300)

\* response.raise_for_status() raises HTTPError (line 185): requests raises
\* for 400 <= status < 600.
RaiseForStatus(r) == 400 <= r.status_code /\ r.status_code < 600

\* str(e) of the HTTPError (the reason phrase and the URL are left out).
HttpErrorText(r) ==
    ToString(r.status_code)
    \o (IF r.status_code < 500 THEN " Client Error" ELSE " Server Error")

\* Mutant of RequestHandle: an undecodable body is returned as None.
RequestHandleLenient(response) ==
    LET j == ResponseJson(response) IN
    IF RaiseForStatus(response)
    THEN Raise(BloodhoundAPIError("HTTP Error: " \o HttpErrorText(response), response))
    ELSE IF j.ok THEN Return(j.v) ELSE Return(None)

\* The try block of request (lines 184-197) on the response of _request.
RequestHandle(response) ==
    LET j == ResponseJson(response)
        error_msg == "HTTP Error: " \o HttpErrorText(response)
    IN  IF RaiseForStatus(response)
        THEN Raise(BloodhoundAPIError(
                 IF j.ok /\ j.t = "dict" /\ "error" \in DOMAIN j.v
                 THEN error_msg \o " - " \o j.v.error
                 ELSE error_msg,
                 response))
        ELSE IF j.ok
        THEN Return(j.v)
        ELSE Raise(BloodhoundAPIError("Invalid JSON response", response))

\* -------------------------------------------------------------------------
\* cypher.py: CypherClient.run_query
\* -------------------------------------------------------------------------

Queries == {"MATCH (n) RETURN n"}

\* json_data.get / error_data.get on a decoded body that is no dict.
AttributeError == PyError("AttributeError", "'list' object has no attribute 'get'")

\* status 200 (lines 39-55)
Status200(query, response) ==
    LET j == ResponseJson(response) IN
    IF ~j.ok
    THEN Raise(BloodhoundAPIError("Invalid JSON response from Cypher query", response))
    ELSE IF j.t # "dict"
    THEN Raise(AttributeError)
    ELSE Return([success |-> TRUE,
                 data |-> DictGet(j.v, "data", PyEmptyDict),
                 metadata |-> [status |-> "success_with_results",
                               query |-> query,
                               has_results |-> TRUE,
                               status_code |-> 200]])

\* Mutant of Status404: 404 handled like any unexpected status.
Status404Error(query, response) ==
    Raise(BloodhoundAPIError(
        "Unexpected response status: " \o ToString(response.status_code), response))

\* status 404 (lines 57-68)
Status404(query, response) ==
    Return([success |-> TRUE,
            data |-> EmptyGraph,
            metadata |-> [status |-> "success_no_results",
                          query |-> query,
                          has_results |-> FALSE,
                          status_code |-> 404,
                          message |-> "Query executed successfully but found no matching data"]])

\* status 400 (lines 70-79)
Status400(response) ==
    LET j == ResponseJson(response) IN
    IF j.ok /\ j.t # "dict"
    THEN Raise(AttributeError)
    ELSE LET error_detail == IF j.ok
                             THEN DictGet(j.v, "error", "Unknown syntax error")
                             ELSE "Malformed Cypher query"
         IN Raise(BloodhoundAPIError("Cypher query syntax error: " \o error_detail, response))

\* status >= 500 (lines 99-108)
StatusServerError(response) ==
    LET j == ResponseJson(response) IN
    IF j.ok /\ j.t # "dict"
    THEN Raise(AttributeError)
    ELSE LET error_detail == IF j.ok
                             THEN DictGet(j.v, "error", "Unknown server error")
                             ELSE "HTTP " \o ToString(response.status_code)
         IN Raise(BloodhoundAPIError("BloodHound server error: " \o error_detail, response))

\* The if/elif chain over response.status_code (lines 39-114).
StatusBranch(query, response) ==
    IF response.status_code = 200 THEN Status200(query, response)
    ELSE IF response.status_code = 404 THEN Status404(query, response)
    ELSE IF response.status_code = 400 THEN Status400(response)
    ELSE IF response.status_code = 401
    THEN Raise(BloodhoundAPIError(
             "Authentication failed - check your BloodHound API credentials", response))
    ELSE IF response.status_code = 403
    THEN Raise(BloodhoundAPIError(
             "Permission denied - insufficient privileges for Cypher queries", response))
    ELSE IF response.status_code = 429
    THEN Raise(BloodhoundAPIError(
             "Rate limit exceeded - too many requests. Please wait before retrying.", response))
    ELSE IF response.status_code >= 500 THEN StatusServerError(response)
    ELSE Raise(BloodhoundAPIError(
             "Unexpected response status: " \o ToString(response.status_code), response))

\* Mutant of RunQueryExcept: only requests' ConnectionError is caught.
RunQueryExceptConnectionOnly(out) ==
    IF out.kind # "raise" THEN out
    ELSE IF IsInstance(out.exc, "ConnectionError")
    THEN Raise(BloodhoundConnectionError(
             "Failed to connect to BloodHound for Cypher query: " \o out.exc.message))
    ELSE out

\* The except clauses of run_query's try block (lines 116-123), in order.
RunQueryExcept(out) ==
    IF out.kind # "raise" THEN out
    ELSE IF IsInstance(out.exc, "ConnectionError")
    THEN Raise(BloodhoundConnectionError(
             "Failed to connect to BloodHound for Cypher query: " \o out.exc.message))
    ELSE IF IsInstance(out.exc, "Timeout")
    THEN Raise(BloodhoundConnectionError(
             "Request timeout during Cypher query: " \o out.exc.message))
    ELSE IF IsInstance(out.exc, "RequestException")
    THEN Raise(BloodhoundConnectionError(
             "Network error during Cypher query: " \o out.exc.message))
    ELSE out

\* run_query(query) when its HTTP exchange is x.
run_query(query, x) ==
    LET sent == _request(x) IN
    RunQueryExcept(IF sent.kind = "raise" THEN sent
                   ELSE StatusBranch(query, sent.value))

\* -------------------------------------------------------------------------
\* cypher.py: CypherClient.run_query_with_retry
\* -------------------------------------------------------------------------

\* max_retries is an int argument: the model draws it from -1..MaxRetriesBound
\* (with a negative value the loop body never runs).
RetryArgs == -1..MaxRetriesBound

\* range(max_retries + 1), the values of the loop variable (line 147).
AttemptRange(m) == 0..m

\* Mutants of RetryLeft: the comparison off by one, either way.
RetryLeftShort(a, m) == a < m - 1

RetryLeftLong(a, m) == a <= m

\* `attempt < max_retries` (lines 153 and 167): a retry is left.
RetryLeft(a, m) == a < m

\* wait_time = 2**attempt (lines 154 and 170).
WaitTime(a) == 2^a

\* wait_time = max(wait_time, 10) for status 429 (lines 171-174).
RateLimitWaitTime(a) == Max(WaitTime(a), 10)

\* `e.status_code in [400, 401, 403]` (line 162); None is in no list.
NotRetried(status_code) == \E s \in status_code : s \in {400, 401, 403}

\* `None >= 500` raises TypeError (line 168, when status_code is None and
\* so not equal to 429).
NoneCompare == PyError("TypeError",
    "'>=' not supported between instances of 'NoneType' and 'int'")

\* `raise None` (line 180, when last_exception was never assigned).
RaiseNone == PyError("TypeError", "exceptions must derive from BaseException")

\* The body run_query sends (line 32, 36), include_properties at its default.
RunQueryBody(query) ==
    JsonDumps(<<<<"query", [str |-> query]>>, <<"includeproperties", [bool |-> TRUE]>>>>)

\* -------------------------------------------------------------------------
\* The inputs of the model
\* -------------------------------------------------------------------------

\* datetime.datetime.now().astimezone().isoformat("T"): two instants of one
\* hour and one of the next.
Timestamps ==
    <<"2024-01-15T14:05:09.120000+00:00",
      "2024-01-15T14:59:59.990000+00:00",
      "2024-01-15T15:00:00+00:00">>

\* Environments: nothing set, and only BLOODHOUND_DOMAIN set.
NoEnv == <<>>

DomainEnv == [BLOODHOUND_DOMAIN |-> "env.example.io"]

Envs == {NoEnv, DomainEnv}

ClientArgs(domain, token_id, token_key, port, scheme) ==
    [domain |-> domain, token_id |-> token_id, token_key |-> token_key,
     port |-> port, scheme |-> scheme]

DefaultArgs == ClientArgs(Some("bh.example.io"), Some("id-1"), Some("key-1"), 443, "https")

\* Constructor arguments: complete ones (differing in the key, or in
\* everything but the key) and ones with a field absent or empty.
CompleteArgs ==
    {DefaultArgs,
     ClientArgs(Some("bh.example.io"), Some("id-1"), Some("key-2"), 443, "https"),
     ClientArgs(Some("other.example.io"), Some("id-2"), Some("key-1"), 8080, "http")}

IncompleteArgs ==
    {ClientArgs(None, Some("id-1"), Some("key-1"), 443, "https"),
     ClientArgs(Some("bh.example.io"), Some(""), Some("key-1"), 443, "https"),
     ClientArgs(Some("bh.example.io"), Some("id-1"), None, 443, "https"),
     ClientArgs(Some(""), None, None, 443, "https")}

RequestArgs(method, uri, params, data) ==
    [method |-> method, uri |-> uri, params |-> params, data |-> data]

\* Calls of request as the resource clients make them.
GetVersion == RequestArgs("GET", "/api/version", None, None)

CreateSavedQuery ==
    RequestArgs("POST", "/api/v2/saved-queries", None,
                Some(<<<<"name", [str |-> "q1"]>>, <<"query", [str |-> "MATCH (n) RETURN n"]>>>>))

RequestCalls ==
    {GetVersion,
     CreateSavedQuery,
     RequestArgs("GET", "/api/v2/users/S-1-5-21/sessions",
                 Some(<<<<"limit", [int |-> 100]>>, <<"skip", [int |-> 0]>>,
                        <<"type", [str |-> "list"]>>>>), None),
     RequestArgs("GET", "/api/v2/search",
                 Some(<<<<"q", [str |-> "a b&c=d"]>>, <<"exact", [bool |-> TRUE]>>>>), None),
     RequestArgs("GET", "/api/v2/saved-queries", Some(<<>>), None),
     RequestArgs("PUT", "/api/v2/saved-queries/7", None, Some(<<>>)),
     RequestArgs("PUT", "/api/v2/saved-queries/7/permissions", None,
                 Some(<<<<"public", [bool |-> FALSE]>>>>))}

\* The calls and the exchanges of the signing specification.
SignCalls == {GetVersion, CreateSavedQuery, RequestArgs("GET", "api/version", None, None)}

SignExchanges ==
    {[kind |-> "response", response |-> Response(200, BodyData)],
     [kind |-> "exception", cls |-> "ConnectionError"]}

\* Number of requests a caller signs, one after the other.
MaxSignings == 2

\* -------------------------------------------------------------------------
\* cypher.py: the saved-query methods of CypherClient
\* -------------------------------------------------------------------------

\* The value of a parameter with a default: what the caller gave, or the
\* default when the caller gave nothing (None here).
PyDefault(arg, default) == IF arg = None THEN default ELSE The(arg)

\* `if x: d[key] = x` on a dict kept as a sequence of items.
SetIfTruthy(d, key, arg, truthy, value) ==
    IF arg # None /\ truthy THEN Append(d, <<key, value>>) ELSE d

SetIfStr(d, key, arg) ==
    SetIfTruthy(d, key, arg, arg # Some(""), [str |-> PyDefault(arg, "")])

\* list_saved_queries (lines 212-250)
list_saved_queries(c) ==
    LET p0 == <<<<"skip", [int |-> PyDefault(c.skip, 0)]>>,
                <<"limit", [int |-> PyDefault(c.limit, 100)]>>>>
        p1 == SetIfStr(p0, "sortby", c.sort_by)
        p2 == SetIfStr(p1, "name", c.name)
        p3 == SetIfStr(p2, "query", c.query)
        p4 == SetIfStr(p3, "userid", c.user_id)
        params == SetIfStr(p4, "scope", c.scope)
    IN  RequestArgs("GET", "/api/v2/saved-queries", Some(params), None)

\* create_saved_query (lines 264-281)
create_saved_query(c) ==
    LET d0 == <<<<"name", [str |-> c.name]>>, <<"query", [str |-> c.query]>>>>
        data == SetIfStr(d0, "description", c.description)
    IN  RequestArgs("POST", "/api/v2/saved-queries", None, Some(data))

\* update_saved_query (lines 283-312)
update_saved_query(c) ==
    LET d1 == SetIfStr(<<>>, "name", c.name)
        d2 == SetIfStr(d1, "query", c.query)
        data == SetIfStr(d2, "description", c.description)
    IN  RequestArgs("PUT", "/api/v2/saved-queries/" \o ToString(c.query_id), None, Some(data))

\* Mutant of share_saved_query: an omitted list of users is sent empty.
ShareSendsEmptyUsers(c) ==
    RequestArgs("PUT", "/api/v2/saved-queries/" \o ToString(c.query_id) \o "/permissions", None,
                Some(<<<<"public", [bool |-> PyDefault(c.public, FALSE)]>>,
                       <<"userids", [list |-> PyDefault(c.user_ids, <<>>)]>>>>))

\* share_saved_query (lines 323-343)
share_saved_query(c) ==
    LET d0 == <<<<"public", [bool |-> PyDefault(c.public, FALSE)]>>>>
        data == SetIfTruthy(d0, "userids", c.user_ids, c.user_ids # Some(<<>>),
                            [list |-> PyDefault(c.user_ids, <<>>)])
    IN  RequestArgs("PUT", "/api/v2/saved-queries/" \o ToString(c.query_id) \o "/permissions",
                    None, Some(data))

\* delete_saved_query_permissions (lines 345-358)
delete_saved_query_permissions(c) ==
    RequestArgs("DELETE", "/api/v2/saved-queries/" \o ToString(c.query_id) \o "/permissions",
                None, Some(<<<<"userids", [list |-> c.user_ids]>>>>))

\* Calls of the saved-query methods: an argument the caller leaves out is None.
ListCall(skip, limit, sort_by, name, query, user_id, scope) ==
    [accessor |-> "list_saved_queries", skip |-> skip, limit |-> limit, sort_by |-> sort_by,
     name |-> name, query |-> query, user_id |-> user_id, scope |-> scope]

SavedQueryCalls ==
    {ListCall(None, None, None, None, None, None, None),
     ListCall(Some(5), Some(10), None, Some("q1"), None, None, Some("owned")),
     ListCall(None, None, Some("name"), None, Some(""), Some("u1"), None),
     [accessor |-> "create_saved_query", name |-> "q1", query |-> "MATCH (n) RETURN n",
      description |-> None],
     [accessor |-> "create_saved_query", name |-> "q1", query |-> "MATCH (n) RETURN n",
      description |-> Some("d1")],
     [accessor |-> "update_saved_query", query_id |-> 7, name |-> None, query |-> None,
      description |-> None],
     [accessor |-> "update_saved_query", query_id |-> 7, name |-> Some("q2"), query |-> None,
      description |-> Some("d1")],
     [accessor |-> "share_saved_query", query_id |-> 7, user_ids |-> None, public |-> None],
     [accessor |-> "share_saved_query", query_id |-> 7, user_ids |-> Some(<<"u1", "u2">>),
      public |-> Some(TRUE)],
     [accessor |-> "share_saved_query", query_id |-> 7, user_ids |-> Some(<<>>),
      public |-> Some(FALSE)],
     [accessor |-> "delete_saved_query_permissions", query_id |-> 7, user_ids |-> <<"u1">>]}

\* -------------------------------------------------------------------------
\* The resource accessors (users.py, groups.py, computers.py, ous.py,
\* gpos.py, adcs.py) and the two probes of api.py
\* -------------------------------------------------------------------------

\* params = {"limit": limit, "skip": skip, "type": "list"} and the request
\* on the path of the accessor: the form of every paginated accessor, e.g.
\* UserClient.get_admin_rights (users.py lines 27-44).
Paginated(path, limit, skip) ==
    RequestArgs("GET", path,
                Some(<<<<"limit", [int |-> PyDefault(limit, 100)]>>,
                       <<"skip", [int |-> PyDefault(skip, 0)]>>,
                       <<"type", [str |-> "list"]>>>>), None)

\* get_info of UserClient, GroupClient, ComputerClient, OUsClient and
\* GPOsClient: params = {"counts": "true"} (users.py lines 12-25).
get_info(path) == RequestArgs("GET", path, Some(<<<<"counts", [str |-> "true"]>>>>), None)

\* get_cert_template_info, get_root_ca_info and get_enterprise_ca_info of
\* ADCSClient (adcs.py lines 13-23, 45-55, 77-87): no params.
get_adcs_info(path) == RequestArgs("GET", path, None, None)

\* test_connection (api.py lines 59-71) on the outcome of request: any
\* Exception, of request or of response["data"], gives None.
TestConnectionReturn(out) ==
    IF out.kind = "raise" THEN Return(None)
    ELSE IF "data" \in DOMAIN out.value THEN Return(Some(out.value.data))
    ELSE Return(None)

\* Mutant of GetSelfInfoReturn: only the client's own errors are caught.
GetSelfInfoCatchesTyped(out) ==
    IF out.kind = "raise" /\ out.exc.type \in {"BloodhoundAPIError", "BloodhoundConnectionError"}
    THEN Return(None)
    ELSE IF out.kind = "raise" THEN out
    ELSE Return(Some(out.value))

\* get_self_info (api.py lines 73-84) on the outcome of request.
GetSelfInfoReturn(out) ==
    IF out.kind = "raise" THEN Return(None) ELSE Return(Some(out.value))

\* Calls of the resource accessors and of the probes.
ResourceCall(accessor, path, limit, skip) ==
    [accessor |-> accessor, path |-> path, limit |-> limit, skip |-> skip]

InfoCall(accessor, path) == [accessor |-> accessor, path |-> path]

PaginatedCalls ==
    {ResourceCall("UserClient.get_admin_rights", "/api/v2/users/S-1-5-21/admin-rights", None, None),
     ResourceCall("ComputerClient.get_sessions", "/api/v2/computers/S-1-5-22/sessions",
                  Some(250), Some(50)),
     ResourceCall("ADCSClient.get_cert_template_controllers",
                  "/api/v2/certtemplates/T-1/controllers", Some(0), None)}

GetInfoCalls ==
    {InfoCall("UserClient.get_info", "/api/v2/users/S-1-5-21"),
     InfoCall("GroupClient.get_info", "/api/v2/groups/S-1-5-32"),
     InfoCall("ComputerClient.get_info", "/api/v2/computers/S-1-5-22"),
     InfoCall("OUsClient.get_info", "/api/v2/ous/OU-1"),
     InfoCall("GPOsClient.get_info", "/api/v2/gpos/GPO-1")}

AdcsInfoCalls ==
    {InfoCall("ADCSClient.get_cert_template_info", "/api/v2/certtemplates/T-1"),
     InfoCall("ADCSClient.get_root_ca_info", "/api/v2/rootcas/CA-1"),
     InfoCall("ADCSClient.get_enterprise_ca_info", "/api/v2/enterprisecas/CA-2")}

ProbeCalls ==
    {[accessor |-> "test_connection"], [accessor |-> "get_self_info"]}

AccessorCalls == SavedQueryCalls \cup PaginatedCalls \cup GetInfoCalls \cup AdcsInfoCalls \cup ProbeCalls

\* The call of request an accessor makes.
AccessorRequest(c) ==
    CASE c.accessor = "list_saved_queries" -> list_saved_queries(c)
      [] c.accessor = "create_saved_query" -> create_saved_query(c)
      [] c.accessor = "update_saved_query" -> update_saved_query(c)
      [] c.accessor = "share_saved_query" -> share_saved_query(c)
      [] c.accessor = "delete_saved_query_permissions" -> delete_saved_query_permissions(c)
      [] c \in PaginatedCalls -> Paginated(c.path, c.limit, c.skip)
      [] c \in GetInfoCalls -> get_info(c.path)
      [] c \in AdcsInfoCalls -> get_adcs_info(c.path)
      [] c.accessor = "test_connection" -> GetVersion
      [] c.accessor = "get_self_info" -> RequestArgs("GET", "/api/v2/self", None, None)

\* What an accessor does with the outcome of its call of request: the
\* probes catch, the two deleting methods return nothing, the others return
\* it unchanged.
AccessorReturn(c, out) ==
    CASE c.accessor = "test_connection" -> TestConnectionReturn(out)
      [] c.accessor = "get_self_info" -> GetSelfInfoReturn(out)
      [] c.accessor = "delete_saved_query_permissions" ->
           IF out.kind = "raise" THEN out ELSE Return(None)
      [] OTHER -> out

\* -------------------------------------------------------------------------
\* cypher.py: CypherClient.validate_query
\* -------------------------------------------------------------------------

LowerLetters == "abcdefghijklmnopqrstuvwxyz"

UpperLetters == "ABCDEFGHIJKLMNOPQRSTUVWXYZ"

\* str.upper() on one character.
UpperChar(c) ==
    IF \E i \in 1..Len(LowerLetters) : SubSeq(LowerLetters, i, i) = c
    THEN LET i == CHOOSE i \in 1..Len(LowerLetters) : SubSeq(LowerLetters, i, i) = c
         IN  SubSeq(UpperLetters, i, i)
    ELSE c

RECURSIVE Upper(_)
\* query.upper()
Upper(s) == IF s = "" THEN "" ELSE UpperChar(SubSeq(s, 1, 1)) \o Upper(SubSeq(s, 2, Len(s)))

Whitespace == {" ", "\t", "\n"}

RECURSIVE Strip(_)
\* query.strip()
Strip(s) ==
    IF s = "" THEN ""
    ELSE IF SubSeq(s, 1, 1) \in Whitespace THEN Strip(SubSeq(s, 2, Len(s)))
    ELSE IF SubSeq(s, Len(s), Len(s)) \in Whitespace THEN Strip(SubSeq(s, 1, Len(s) - 1))
    ELSE s

\* keyword in text
Contains(text, keyword) ==
    \E i \in 1..(Len(text) - Len(keyword) + 1) : SubSeq(text, i, i + Len(keyword) - 1) = keyword

\* Mutant of Keyword: the text is searched as written.
KeywordCaseSensitive(keyword, query) == Contains(query, keyword)

\* keyword in query.upper() (lines 195-198)
Keyword(keyword, query) == Contains(Upper(query), keyword)

\* basic_checks (lines 193-200)
BasicChecks(query) ==
    [is_empty |-> Strip(query) = "",
     has_return |-> Keyword("RETURN", query),
     has_match |-> Keyword("MATCH", query),
     estimated_complexity |->
         IF \E keyword \in {"*", "ALL", "COLLECT"} : Keyword(keyword, query)
         THEN "high" ELSE "medium"]

\* validate_query (lines 182-210): the dictionary it returns; an element of
\* warnings is a string or None.
validate_query(query) ==
    LET basic_checks == BasicChecks(query) IN
    [valid |-> ~basic_checks.is_empty,
     checks |-> basic_checks,
     warnings |-> <<IF basic_checks.is_empty THEN Some("Query appears empty") ELSE None,
                    IF basic_checks.estimated_complexity = "high"
                    THEN Some("Query may have high complexity") ELSE None>>]

\* Query texts given to validate_query.
QueryTexts ==
    {"", "  ", " \n\t", "MATCH (n) RETURN n", "  match (n) return n  ",
     "Match p=(a)-[*]->(b) Return p", "call db.labels()", "return 1",
     "MATCH (n) WHERE n.name = 'x' WITH collect(n) AS c", "match (n) delete n", "*"}

VARIABLES
    pc,              \* where the call is: idle, for, try, except, sleep, after_loop, done
    op,              \* the operation called: run_query or run_query_with_retry
    query,           \* the query argument
    max_retries,     \* the max_retries argument
    attempt,         \* the loop variable of run_query_with_retry (-1: not bound yet)
    last_exception,  \* the local last_exception (None or Some(exception))
    caught,          \* the exception `e` an except clause is handling
    outcome,         \* how the call ended: None, Some(Return(..)) or Some(Raise(..))
    log,             \* history: per _request invocation of the call, its exchange and its outcome
    sleeps,          \* history: the time.sleep calls, [after |-> attempt, secs |-> wait_time]
    client,          \* the client the caller holds: None, or Some(its attributes)
    env,             \* the process environment (os.getenv)
    now,             \* the wall clock: the index in Timestamps of datetime.now()
    call,            \* the arguments of the constructor or request call: None or Some(args)
    wire,            \* history: the calls of _request, each with its HTTP request
    threads          \* the threads on the client: which one runs, and the others' frames

vars == <<pc, op, query, max_retries, attempt, last_exception, caught, outcome, log, sleeps,
          client, env, now, call, wire, threads>>

\* One thread: the caller's own.
OneThread == [running |-> "main", frames |-> <<>>]

Init ==
    /\ pc = "idle"
    /\ op = "none"
    /\ query \in Queries
    /\ max_retries = 0
    /\ attempt = -1
    /\ last_exception = None
    /\ caught = None
    /\ outcome = None
    /\ log = <<>>
    /\ sleeps = <<>>
    /\ env = NoEnv
    /\ client = Some(BaseClientInit(DefaultArgs, NoEnv).value)
    /\ now = 1
    /\ call = None
    /\ wire = <<>>
    /\ threads = OneThread

\* A caller invokes run_query(query) directly; x is its HTTP exchange.
CallRunQuery(x) ==
    /\ pc = "idle"
    /\ client # None
    /\ wire' = Append(wire, Dispatch(The(client), "POST", "/api/v2/graphs/cypher",
                                          Some(RunQueryBody(query)), Timestamps[now]))
    /\ op' = "run_query"
    /\ LET r == run_query(query, x) IN
       /\ log' = <<[attempt |-> 0, exchange |-> x, result |-> r]>>
       /\ outcome' = Some(r)
    /\ pc' = "done"
    /\ UNCHANGED <<query, max_retries, attempt, last_exception, caught, sleeps>>
    /\ UNCHANGED <<client, env, now, call>>
    /\ UNCHANGED threads

\* A caller invokes run_query_with_retry(query, max_retries = m) (line 145).
CallRetry(m) ==
    /\ pc = "idle"
    /\ client # None
    /\ op' = "run_query_with_retry"
    /\ max_retries' = m
    /\ last_exception' = None
    /\ pc' = "for"
    /\ UNCHANGED <<query, attempt, caught, outcome, log, sleeps>>
    /\ UNCHANGED <<client, env, now, call, wire>>
    /\ UNCHANGED threads

\* Mutant of ForNext: a loop that tries again without advancing `attempt`.
ForNextStuck ==
    /\ pc = "for"
    /\ attempt' = Max(attempt, 0)
    /\ pc' = "try"
    /\ UNCHANGED <<op, query, max_retries, last_exception, caught, outcome, log, sleeps>>
    /\ UNCHANGED <<client, env, now, call, wire>>
    /\ UNCHANGED threads

\* `for attempt in range(max_retries + 1)` takes its next value, or ends (line 147).
ForNext ==
    /\ pc = "for"
    /\ IF attempt + 1 \in AttemptRange(max_retries)
       THEN attempt' = attempt + 1 /\ pc' = "try"
       ELSE attempt' = attempt /\ pc' = "after_loop"
    /\ UNCHANGED <<op, query, max_retries, last_exception, caught, outcome, log, sleeps>>
    /\ UNCHANGED <<client, env, now, call, wire>>
    /\ UNCHANGED threads

\* `return self.run_query(query, include_properties)` (lines 148-149).
Attempt(x) ==
    /\ pc = "try"
    /\ wire' = Append(wire, Dispatch(The(client), "POST", "/api/v2/graphs/cypher",
                                          Some(RunQueryBody(query)), Timestamps[now]))
    /\ LET r == run_query(query, x) IN
       /\ log' = Append(log, [attempt |-> attempt, exchange |-> x, result |-> r])
       /\ IF r.kind = "return"
          THEN outcome' = Some(r) /\ pc' = "done" /\ caught' = caught
          ELSE outcome' = outcome /\ pc' = "except" /\ caught' = Some(r.exc)
    /\ UNCHANGED <<op, query, max_retries, attempt, last_exception, sleeps>>
    /\ UNCHANGED <<client, env, now, call>>
    /\ UNCHANGED threads

\* `except BloodhoundConnectionError as e` (lines 151-158).
ExceptConnectionError ==
    /\ pc = "except"
    /\ \E e \in caught :
        /\ e.type = "BloodhoundConnectionError"
        /\ last_exception' = Some(e)
        /\ IF RetryLeft(attempt, max_retries)
           THEN /\ sleeps' = Append(sleeps, [after |-> attempt, secs |-> WaitTime(attempt)])
                /\ pc' = "sleep"
                /\ outcome' = outcome
           ELSE /\ outcome' = Some(Raise(e))
                /\ pc' = "done"
                /\ sleeps' = sleeps
    /\ caught' = None
    /\ UNCHANGED <<op, query, max_retries, attempt, log>>
    /\ UNCHANGED <<client, env, now, call, wire>>
    /\ UNCHANGED threads

\* `except BloodhoundAPIError as e` (lines 160-178).
ExceptAPIError ==
    /\ pc = "except"
    /\ \E e \in caught :
        /\ e.type = "BloodhoundAPIError"
        /\ IF NotRetried(e.status_code)
           THEN /\ outcome' = Some(Raise(e))
                /\ pc' = "done"
                /\ UNCHANGED <<last_exception, sleeps>>
           ELSE /\ last_exception' = Some(e)
                /\ IF ~RetryLeft(attempt, max_retries)
                   THEN /\ outcome' = Some(Raise(e))
                        /\ pc' = "done"
                        /\ sleeps' = sleeps
                   ELSE IF e.status_code = Some(429)
                   THEN /\ sleeps' = Append(sleeps,
                               [after |-> attempt, secs |-> RateLimitWaitTime(attempt)])
                        /\ pc' = "sleep"
                        /\ outcome' = outcome
                   ELSE IF e.status_code = None
                   THEN /\ outcome' = Some(Raise(NoneCompare))
                        /\ pc' = "done"
                        /\ sleeps' = sleeps
                   ELSE IF \E s \in e.status_code : s >= 500
                   THEN /\ sleeps' = Append(sleeps,
                               [after |-> attempt, secs |-> WaitTime(attempt)])
                        /\ pc' = "sleep"
                        /\ outcome' = outcome
                   ELSE /\ outcome' = Some(Raise(e))
                        /\ pc' = "done"
                        /\ sleeps' = sleeps
    /\ caught' = None
    /\ UNCHANGED <<op, query, max_retries, attempt, log>>
    /\ UNCHANGED <<client, env, now, call, wire>>
    /\ UNCHANGED threads

\* An exception neither except clause names leaves the call as it is.
Propagate ==
    /\ pc = "except"
    /\ \E e \in caught :
        /\ e.type \notin {"BloodhoundConnectionError", "BloodhoundAPIError"}
        /\ outcome' = Some(Raise(e))
    /\ pc' = "done"
    /\ caught' = None
    /\ UNCHANGED <<op, query, max_retries, attempt, last_exception, log, sleeps>>
    /\ UNCHANGED <<client, env, now, call, wire>>
    /\ UNCHANGED threads

\* time.sleep(wait_time) returns; `continue` (lines 155-156, 175-176).
SleepDone ==
    /\ pc = "sleep"
    /\ pc' = "for"
    /\ UNCHANGED <<op, query, max_retries, attempt, last_exception, caught, outcome, log, sleeps>>
    /\ UNCHANGED <<client, env, now, call, wire>>
    /\ UNCHANGED threads

\* `raise last_exception` after the loop (line 180).
RaiseLast ==
    /\ pc = "after_loop"
    /\ IF last_exception = None
       THEN outcome' = Some(Raise(RaiseNone))
       ELSE \E e \in last_exception : outcome' = Some(Raise(e))
    /\ pc' = "done"
    /\ UNCHANGED <<op, query, max_retries, attempt, last_exception, caught, log, sleeps>>
    /\ UNCHANGED <<client, env, now, call, wire>>
    /\ UNCHANGED threads

\* A caller invokes request(method, uri, params, data) (line 149).
CallRequest(a) ==
    /\ pc = "idle"
    /\ client # None
    /\ op' = "request"
    /\ call' = Some(a)
    /\ pc' = "request_send"
    /\ UNCHANGED <<query, max_retries, attempt, last_exception, caught, outcome, log, sleeps,
                   client, env, now, wire>>
    /\ UNCHANGED threads

\* A caller calls an accessor, which builds its arguments and calls request.
CallAccessor(c) ==
    /\ pc = "idle"
    /\ client # None
    /\ op' = "accessor"
    /\ call' = Some([accessor |-> c] @@ AccessorRequest(c))
    /\ pc' = "request_send"
    /\ UNCHANGED <<query, max_retries, attempt, last_exception, caught, outcome, log, sleeps,
                   client, env, now, wire>>
    /\ UNCHANGED threads

\* The outcome the caller gets: of request itself, or of the accessor that
\* called it.
CallerOutcome(a, out) ==
    IF "accessor" \in DOMAIN a THEN AccessorReturn(a.accessor, out) ELSE out

\* Mutant of RequestSend: a connection failure is tried again.
RequestSendAgain(x) ==
    /\ pc = "request_send"
    /\ Len(log) < 3
    /\ \E a \in call :
        LET uri == RequestUri(a.uri, a.params)
            body == RequestBody(a.data)
            sent == _request(x)
        IN  /\ wire' = Append(wire, Dispatch(The(client), a.method, uri, body, Timestamps[now]))
            /\ log' = Append(log, [attempt |-> Len(log), exchange |-> x, result |-> sent])
            /\ IF sent.kind = "raise"
               THEN outcome' = outcome /\ pc' = "request_send"
               ELSE outcome' = Some(RequestHandle(sent.value)) /\ pc' = "done"
    /\ UNCHANGED <<op, query, max_retries, attempt, last_exception, caught, sleeps,
                   client, env, now, call>>
    /\ UNCHANGED threads

\* The body of request (lines 168-197): the URI and the body are built,
\* _request is called once, and its response is handled; x is the exchange.
RequestSend(x) ==
    /\ pc = "request_send"
    /\ \E a \in call :
        LET uri == RequestUri(a.uri, a.params)
            body == RequestBody(a.data)
            sent == _request(x)
        IN  /\ wire' = Append(wire, Dispatch(The(client), a.method, uri, body, Timestamps[now]))
            /\ log' = Append(log, [attempt |-> Len(log), exchange |-> x, result |-> sent])
            /\ outcome' = Some(CallerOutcome(a, IF sent.kind = "raise" THEN sent
                                                 ELSE RequestHandle(sent.value)))
    /\ pc' = "done"
    /\ UNCHANGED <<op, query, max_retries, attempt, last_exception, caught, sleeps,
                   client, env, now, call>>
    /\ UNCHANGED threads

\* A caller calls validate_query(q) (cypher.py lines 182-210): the result is
\* computed from the text alone.
CallValidateQuery(q) ==
    /\ pc = "idle"
    /\ client # None
    /\ op' = "validate_query"
    /\ query' = q
    /\ outcome' = Some(Return(validate_query(q)))
    /\ pc' = "done"
    /\ UNCHANGED <<max_retries, attempt, last_exception, caught, log, sleeps,
                   client, env, now, call, wire>>
    /\ UNCHANGED threads

\* A caller constructs BloodhoundAPI(domain, token_id, token_key, port, scheme)
\* (api.py lines 22-57): the base client is built first, and its error leaves
\* the caller without a new client.
Construct(a) ==
    /\ pc = "idle"
    /\ op' = "construct"
    /\ call' = Some(a)
    /\ LET built == BaseClientInit(a, env) IN
       /\ outcome' = Some(built)
       /\ client' = IF built.kind = "return" THEN Some(built.value) ELSE client
    /\ pc' = "done"
    /\ UNCHANGED <<query, max_retries, attempt, last_exception, caught, log, sleeps,
                   env, now, wire>>
    /\ UNCHANGED threads

\* Time passes: datetime.now() gives a later instant.
Tick ==
    /\ now < Len(Timestamps)
    /\ now' = now + 1
    /\ UNCHANGED <<pc, op, query, max_retries, attempt, last_exception, caught, outcome, log,
                   sleeps, client, env, call, wire>>
    /\ UNCHANGED threads

\* The call is over and the caller goes on to its next call.
Finish ==
    /\ pc = "done"
    /\ Len(wire) < MaxSignings
    /\ pc' = "idle"
    /\ op' = "none"
    /\ call' = None
    /\ outcome' = None
    /\ log' = <<>>
    /\ UNCHANGED <<query, max_retries, attempt, last_exception, caught, sleeps,
                   client, env, now, wire>>
    /\ UNCHANGED threads

Next ==
    \/ \E x \in Exchanges : CallRunQuery(x)
    \/ \E m \in RetryArgs : CallRetry(m)
    \/ ForNext
    \/ \E x \in Exchanges : Attempt(x)
    \/ ExceptConnectionError
    \/ ExceptAPIError
    \/ Propagate
    \/ SleepDone
    \/ RaiseLast
    \/ \E a \in RequestCalls : CallRequest(a)
    \/ \E x \in Exchanges : RequestSend(x)
    \/ \E q \in QueryTexts : CallValidateQuery(q)
    \/ \E c \in AccessorCalls : CallAccessor(c)

Spec == Init /\ [][Next]_vars

\* Construction and signing: a caller without a client constructs clients
\* and issues requests through them, one call after the other, while the
\* clock advances.
InitSign ==
    /\ pc = "idle"
    /\ op = "none"
    /\ query \in Queries
    /\ max_retries = 0
    /\ attempt = -1
    /\ last_exception = None
    /\ caught = None
    /\ outcome = None
    /\ log = <<>>
    /\ sleeps = <<>>
    /\ env \in Envs
    /\ client = None
    /\ now = 1
    /\ call = None
    /\ wire = <<>>
    /\ threads = OneThread

NextSign ==
    \/ \E a \in CompleteArgs \cup IncompleteArgs : Construct(a)
    \/ \E a \in SignCalls : CallRequest(a)
    \/ \E x \in SignExchanges : RequestSend(x)
    \/ Tick
    \/ Finish

SpecSign == InitSign /\ [][NextSign]_vars

\* One call of run_query_with_retry with max_retries >= 0, in which every
\* step that can be taken is eventually taken: each HTTP exchange and each
\* sleep completes, and the interpreter goes on. An exchange is answered
\* with any status, or with any body on status 200, or fails.
RetryExchanges ==
    {[kind |-> "response", response |-> Response(s, BodyData)] : s \in Statuses}
    \cup {[kind |-> "response", response |-> Response(200, b)] : b \in Bodies}
    \cup {[kind |-> "exception", cls |-> c] : c \in {"ConnectionError", "ReadTimeout"}}

NextRetry ==
    \/ \E m \in RetryArgs \ {-1} : CallRetry(m)
    \/ ForNext
    \/ \E x \in RetryExchanges : Attempt(x)
    \/ ExceptConnectionError
    \/ ExceptAPIError
    \/ Propagate
    \/ SleepDone

SpecRetry == Init /\ [][NextRetry]_vars /\ WF_vars(NextRetry)

\* Several threads call one client. The variables of a call (pc .. sleeps,
\* call) are the locals of the running thread's call; a thread that is not
\* running keeps its own in its frame. The client's attributes, the clock
\* and the network are shared by all threads.
Threads == {"t1", "t2"}

Frame ==
    [pc |-> pc, op |-> op, query |-> query, max_retries |-> max_retries, attempt |-> attempt,
     last_exception |-> last_exception, caught |-> caught, outcome |-> outcome, log |-> log,
     sleeps |-> sleeps, call |-> call]

IdleFrame ==
    [pc |-> "idle", op |-> "none", query |-> "MATCH (n) RETURN n", max_retries |-> 0,
     attempt |-> -1, last_exception |-> None, caught |-> None, outcome |-> None, log |-> <<>>,
     sleeps |-> <<>>, call |-> None]

Suspended == DOMAIN threads.frames

\* The frames after the running thread is suspended and t resumes.
SwitchFrames(t) ==
    [running |-> t,
     frames |-> [u \in (Suspended \ {t}) \cup {threads.running} |->
                    IF u = threads.running THEN Frame ELSE threads.frames[u]]]

\* Mutant of Switch: the loop variable is kept on the client, one for all
\* threads.
SwitchSharedAttempt(t) ==
    /\ t \in Suspended
    /\ threads' = SwitchFrames(t)
    /\ LET f == threads.frames[t] IN
       /\ pc' = f.pc
       /\ op' = f.op
       /\ query' = f.query
       /\ max_retries' = f.max_retries
       /\ last_exception' = f.last_exception
       /\ caught' = f.caught
       /\ outcome' = f.outcome
       /\ log' = f.log
       /\ sleeps' = f.sleeps
       /\ call' = f.call
    /\ UNCHANGED <<attempt, client, env, now, wire>>

\* The scheduler suspends the running thread and resumes thread t: every
\* local of the calls (cypher.py lines 145-180, base.py lines 112-181) goes
\* with its thread.
Switch(t) ==
    /\ t \in Suspended
    /\ threads' = SwitchFrames(t)
    /\ LET f == threads.frames[t] IN
       /\ pc' = f.pc
       /\ op' = f.op
       /\ query' = f.query
       /\ max_retries' = f.max_retries
       /\ attempt' = f.attempt
       /\ last_exception' = f.last_exception
       /\ caught' = f.caught
       /\ outcome' = f.outcome
       /\ log' = f.log
       /\ sleeps' = f.sleeps
       /\ call' = f.call
    /\ UNCHANGED <<client, env, now, wire>>

\* The calls and exchanges of the threads.
ThreadRetryArgs == {-1, 0, 1}

ThreadExchanges ==
    {[kind |-> "response", response |-> Response(200, BodyData)],
     [kind |-> "response", response |-> Response(200, BodyArray)],
     [kind |-> "response", response |-> Response(429, BodyError)],
     [kind |-> "exception", cls |-> "ConnectionError"]}

InitThreads ==
    /\ pc = "idle"
    /\ op = "none"
    /\ query \in Queries
    /\ max_retries = 0
    /\ attempt = -1
    /\ last_exception = None
    /\ caught = None
    /\ outcome = None
    /\ log = <<>>
    /\ sleeps = <<>>
    /\ env = NoEnv
    /\ client = Some(BaseClientInit(DefaultArgs, NoEnv).value)
    /\ now = 1
    /\ call = None
    /\ wire = <<>>
    /\ threads = [running |-> "t1", frames |-> [t \in Threads \ {"t1"} |-> IdleFrame]]

NextThreads ==
    \/ \E x \in ThreadExchanges : CallRunQuery(x)
    \/ \E m \in ThreadRetryArgs : CallRetry(m)
    \/ ForNext
    \/ \E x \in ThreadExchanges : Attempt(x)
    \/ ExceptConnectionError
    \/ ExceptAPIError
    \/ Propagate
    \/ SleepDone
    \/ RaiseLast
    \/ CallRequest(GetVersion)
    \/ \E x \in ThreadExchanges : RequestSend(x)
    \/ \E t \in Threads : Switch(t)

SpecThreads == InitThreads /\ [][NextThreads]_vars

\* -------------------------------------------------------------------------
\* Reading the histories
\* -------------------------------------------------------------------------

InRetryCall == op = "run_query_with_retry"

\* The log holds outcomes of run_query (not of request's _request).
InRunQuery == op \in {"run_query", "run_query_with_retry"}

Ended == pc = "done"

\* The except clause for log entry i has run (or none was needed).
Handled(i) == i < Len(log) \/ pc # "except"

IsResponse(entry) == entry.exchange.kind = "response"

StatusOf(entry) == entry.exchange.response.status_code

RaisedType(entry, type) == entry.result.kind = "raise" /\ entry.result.exc.type = type

HasStatus(entry, S) == IsResponse(entry) /\ StatusOf(entry) \in S

ServerStatuses == {s \in Statuses : s >= 500}

SleptAfter(a) == \E k \in 1..Len(sleeps) : sleeps[k].after = a

\* -------------------------------------------------------------------------
\* The retry loop
\* -------------------------------------------------------------------------

\* C1: one call of run_query_with_retry invokes run_query at most
\* max_retries + 1 times, whatever the outcomes of the attempts are
\* (at most 4 times with max_retries = 3).
C1_AttemptBudget ==
    InRetryCall =>
        /\ Len(log) <= max_retries + 1
        /\ (max_retries = 3 => Len(log) <= 4)
        /\ \A i \in 1..Len(log) : log[i].attempt = i - 1

C1_Witness ==
    /\ InRetryCall /\ Ended
    /\ max_retries = 3
    /\ Len(log) = 4

\* C2: an attempt answered with status 400, 401 or 403 ends the call at once:
\* the API error of that attempt is what the caller gets, with no sleep and
\* no further attempt.
C2_NoRetryRaisesApiError ==
    InRetryCall =>
        \A i \in 1..Len(log) :
            (HasStatus(log[i], {400, 401, 403})
                /\ RaisedType(log[i], "BloodhoundAPIError")) =>
                /\ i = Len(log)
                /\ ~SleptAfter(log[i].attempt)
                /\ pc \notin {"sleep", "for", "try"}
                /\ (Ended => outcome = Some(log[i].result))

\* C3: an attempt answered with status 429 or >= 500 is followed by a sleep
\* and another attempt when attempts remain, and on the final attempt its
\* API error is what the caller gets.
C3_TransientStatusRetried ==
    InRetryCall =>
        \A i \in 1..Len(log) :
            (HasStatus(log[i], {429} \cup ServerStatuses)
                /\ RaisedType(log[i], "BloodhoundAPIError")
                /\ Handled(i)) =>
                /\ (log[i].attempt < max_retries =>
                        SleptAfter(log[i].attempt) /\ ~(Ended /\ i = Len(log)))
                /\ (log[i].attempt = max_retries /\ Ended =>
                        outcome = Some(log[i].result))

\* C4: a Connection error on an attempt with index < max_retries is followed
\* by another attempt (the call does not end there, and the loop still has a
\* value for the next attempt); when all max_retries + 1 attempts fail with a
\* Connection error, the caller gets the Connection error of the last one.
C4_ConnectionErrorRetried ==
    InRetryCall =>
        /\ \A i \in 1..Len(log) :
            (RaisedType(log[i], "BloodhoundConnectionError")
                /\ log[i].attempt < max_retries
                /\ Handled(i)) =>
                /\ SleptAfter(log[i].attempt)
                /\ (i = Len(log) => pc \in {"sleep", "for", "try"})
        /\ ((Ended
             /\ Len(log) > 0
             /\ Len(log) = max_retries + 1
             /\ \A i \in 1..Len(log) : RaisedType(log[i], "BloodhoundConnectionError"))
            => outcome = Some(log[Len(log)].result))

C4_Witness ==
    /\ InRetryCall /\ Ended
    /\ max_retries = 2
    /\ Len(log) = 3
    /\ \A i \in 1..3 : RaisedType(log[i], "BloodhoundConnectionError")
    /\ log[1].result # log[3].result
    /\ log[2].result # log[3].result
    /\ outcome = Some(log[3].result)

\* The delay the claim gives for the failure of a log entry.
ClaimedDelay(entry) ==
    IF HasStatus(entry, {429})
    THEN Max(2^entry.attempt, 10)
    ELSE 2^entry.attempt

\* C5: after the failed attempt number k (Connection error, status >= 500 or
\* status 429) with a retry left, the call sleeps: exactly 2^k seconds for a
\* Connection error or a status >= 500, exactly max(2^k, 10) seconds (never
\* less than 10) for status 429.
C5_BackoffDelays ==
    InRetryCall =>
        /\ \A i \in 1..Len(log) :
            (log[i].result.kind = "raise"
                /\ log[i].result.exc.type \in {"BloodhoundConnectionError", "BloodhoundAPIError"}
                /\ (IsResponse(log[i]) => StatusOf(log[i]) \in {429} \cup ServerStatuses)
                /\ log[i].attempt < max_retries
                /\ Handled(i)) =>
                \E k \in 1..Len(sleeps) :
                    /\ sleeps[k].after = log[i].attempt
                    /\ sleeps[k].secs = ClaimedDelay(log[i])
        /\ \A k \in 1..Len(sleeps) :
            sleeps[k].secs = ClaimedDelay(log[sleeps[k].after + 1])

\* C6: every sleep is followed by another attempt: the call sleeps only with
\* a retry left, a sleep is never the last thing a call does, and a call that
\* made an attempt has slept once less than it has attempted when it ends.
C6_SleepOnlyBetweenAttempts ==
    InRetryCall =>
        /\ (pc = "sleep" => attempt < max_retries)
        /\ \A k \in 1..Len(sleeps) :
            /\ sleeps[k].after = k - 1
            /\ sleeps[k].after < max_retries
            /\ k <= Len(log)
            /\ (k = Len(log) => pc \in {"sleep", "for", "try"})
        /\ (pc = "for" /\ Len(sleeps) > 0 => attempt + 1 \in 0..max_retries)
        /\ (Ended /\ Len(log) > 0 => Len(sleeps) = Len(log) - 1)

C6_Witness ==
    /\ InRetryCall /\ Ended
    /\ Len(log) = 3
    /\ Len(sleeps) = 2
    /\ max_retries = 3

\* -------------------------------------------------------------------------
\* run_query
\* -------------------------------------------------------------------------

\* C7: on status 404 run_query does not raise: it returns success = true,
\* the empty graph and has_results = false, whatever the body is.
C7_NotFoundIsEmptySuccess ==
    InRunQuery => \A i \in 1..Len(log) :
        HasStatus(log[i], {404}) =>
            /\ log[i].result.kind = "return"
            /\ log[i].result.value.success = TRUE
            /\ log[i].result.value.data = [nodes |-> <<>>, edges |-> <<>>]
            /\ log[i].result.value.metadata.has_results = FALSE

C7_Witness ==
    /\ op = "run_query" /\ Ended
    /\ log[1].exchange = [kind |-> "response", response |-> Response(404, BodyNotJson)]
    /\ \E o \in outcome : o.kind = "return" /\ o.value.data = [nodes |-> <<>>, edges |-> <<>>]

\* The `data` field of a body, with the empty graph for a body without one.
ClaimedData(body) ==
    IF body = BodyData THEN SomeGraph ELSE [nodes |-> <<>>, edges |-> <<>>]

\* C8: on status 200 with a body that decodes to a JSON object run_query
\* returns success with has_results = true and the body's `data` field, or
\* the empty graph {nodes: [], edges: []} when the body has no `data` field.
C8_OkReturnsData ==
    InRunQuery => \A i \in 1..Len(log) :
        (HasStatus(log[i], {200})
            /\ log[i].exchange.response.body \in {BodyData, BodyEmptyObject, BodyError}) =>
            /\ log[i].result.kind = "return"
            /\ log[i].result.value.success = TRUE
            /\ log[i].result.value.metadata.has_results = TRUE
            /\ log[i].result.value.data = ClaimedData(log[i].exchange.response.body)

\* C9: run_query returns a result only for status 200 and 404; for every
\* other status it raises an API error whose status_code is the status of
\* the response (stated for the bodies that are a JSON object or no JSON).
C9_ErrorCarriesStatus ==
    InRunQuery => \A i \in 1..Len(log) :
        (IsResponse(log[i]) /\ log[i].exchange.response.body # BodyArray) =>
            /\ (log[i].result.kind = "return" => StatusOf(log[i]) \in {200, 404})
            /\ (StatusOf(log[i]) \notin {200, 404} =>
                    /\ RaisedType(log[i], "BloodhoundAPIError")
                    /\ log[i].result.exc.status_code = Some(StatusOf(log[i])))

\* C10: every transport failure of the exchange reaches run_query's caller as
\* a BloodhoundConnectionError, never as the library's exception and never as
\* an API error.
C10_TransportFailureIsConnectionError ==
    InRunQuery => \A i \in 1..Len(log) :
        log[i].exchange.kind = "exception" =>
            /\ log[i].result.kind = "raise"
            /\ log[i].result.exc.type = "BloodhoundConnectionError"
            /\ (op = "run_query" /\ Ended => outcome = Some(log[i].result))

C10_Witness ==
    /\ op = "run_query" /\ Ended
    /\ log[1].exchange = [kind |-> "exception", cls |-> "TooManyRedirects"]
    /\ \E o \in outcome : o.kind = "raise" /\ o.exc.type = "BloodhoundConnectionError"

\* -------------------------------------------------------------------------
\* request, the facade over _request (base.py)
\* -------------------------------------------------------------------------

InRequestCall == op = "request"

\* The response a call of request received, and what it did with it.
RequestResponse == log[1].exchange.response

RequestGot(S) ==
    /\ InRequestCall
    /\ Ended
    /\ Len(log) = 1
    /\ HasStatus(log[1], S)

TypedErrors == {"BloodhoundAPIError", "BloodhoundConnectionError"}

\* C11: when request, run_query or run_query_with_retry (max_retries >= 0)
\* ends by raising after exchanges that all produced a response with a JSON
\* object or an undecodable body, whatever the statuses, the exception is a
\* BloodhoundAPIError or a BloodhoundConnectionError.
C11_OnlyTypedErrorsEscape ==
    (/\ Ended
     /\ op \in {"request", "run_query", "run_query_with_retry"}
     /\ InRetryCall => max_retries >= 0
     /\ \A i \in 1..Len(log) :
            IsResponse(log[i]) /\ log[i].exchange.response.body # BodyArray)
    => \A o \in outcome : o.kind = "raise" => o.exc.type \in TypedErrors

Status2xx == {s \in Statuses : 200 <= s /\ s < 300}

Status4xx5xx == {s \in Statuses : 400 <= s /\ s < 600}

RaisedApiError(o) == o.kind = "raise" /\ o.exc.type = "BloodhoundAPIError"

\* C12 as stated: request raises the API error on every response whose
\* status is not 2xx, and returns a value only on a 2xx status.
C12_Non2xxRaises ==
    RequestGot(Statuses) =>
        \A o \in outcome :
            /\ StatusOf(log[1]) \notin Status2xx => RaisedApiError(o)
            /\ o.kind = "return" => StatusOf(log[1]) \in Status2xx

\* C12, amended: request raises the API error on every response whose status
\* is in 400..599; on any other status it returns the decoded body when the
\* body is valid JSON and raises the API error "Invalid JSON response" when
\* it is not.
C12_FailureStatusRaises ==
    RequestGot(Statuses) =>
        \A o \in outcome :
            IF StatusOf(log[1]) \in Status4xx5xx
            THEN RaisedApiError(o) /\ o.exc.message # "Invalid JSON response"
            ELSE IF RequestResponse.body = BodyNotJson
            THEN RaisedApiError(o) /\ o.exc.message = "Invalid JSON response"
            ELSE o = Return(ResponseJson(RequestResponse).v)

\* A 304 with a JSON body is returned to the caller.
C12_Witness ==
    /\ RequestGot({304})
    /\ RequestResponse.body = BodyData
    /\ outcome = Some(Return([data |-> SomeGraph]))

\* C13: the API error request raises for a response with a status in 400..599
\* has that status as its status_code and the response as its response.
C13_RequestErrorCarriesStatus ==
    RequestGot(Status4xx5xx) =>
        \A o \in outcome :
            RaisedApiError(o) =>
                /\ o.exc.status_code = Some(StatusOf(log[1]))
                /\ o.exc.response = RequestResponse

\* C14: on a 2xx response whose body is not JSON, request raises the API
\* error "Invalid JSON response" carrying the response; it returns nothing
\* and does not raise the "HTTP Error" error.
C14_UndecodableSuccessRaises ==
    (RequestGot(Status2xx) /\ RequestResponse.body = BodyNotJson) =>
        /\ outcome # None
        /\ \A o \in outcome :
            /\ RaisedApiError(o)
            /\ o.exc.message = "Invalid JSON response"
            /\ o.exc.response = RequestResponse

C14_Witness ==
    /\ RequestGot({201})
    /\ RequestResponse.body = BodyNotJson
    /\ \E o \in outcome : RaisedApiError(o) /\ o.exc.response = Response(201, BodyNotJson)

\* C15: a call of request calls _request once and _request makes at most one
\* HTTP exchange, whatever the outcome: when the call has ended, one call of
\* _request and one HTTP request have been made, and never more before.
C15_RequestSendsOnce ==
    InRequestCall =>
        /\ Len(log) <= 1
        /\ Len(wire) = Len(log)
        /\ Ended => Len(log) = 1

\* A call that ended on a connection failure made one exchange.
C15_Witness ==
    /\ InRequestCall
    /\ Ended
    /\ Len(wire) = 1
    /\ ~IsResponse(log[1])
    /\ \E o \in outcome : o.kind = "raise" /\ o.exc.type = "BloodhoundConnectionError"

\* The URI the caller of request expects for its path and parameters.
ClaimedUri(a) ==
    CASE a.uri = "/api/v2/users/S-1-5-21/sessions" ->
           "/api/v2/users/S-1-5-21/sessions?limit=100&skip=0&type=list"
      [] a.uri = "/api/v2/search" -> "/api/v2/search?q=a b&c=d&exact=True"
      [] OTHER -> a.uri

\* The message of the first HMAC stage of a signature: method and URI.
SignedOperation(w) == w.request.headers["Signature"].b64.key.key.msg

\* C16: the URI request signs and sends is the path, then "?" and the pairs
\* key=value joined by "&" in the order of the mapping, values in their
\* string form and not encoded; without parameters it is the path unchanged.
C16_ParamsAppendedInOrder ==
    InRequestCall =>
        \A i \in 1..Len(wire) : \A a \in call :
            /\ wire[i].uri = ClaimedUri(a)
            /\ SignedOperation(wire[i]) = a.method \o ClaimedUri(a)
            /\ wire[i].request.url = "https://bh.example.io:443" \o ClaimedUri(a)

C16_Witness ==
    /\ InRequestCall
    /\ Len(wire) = 1
    /\ \E a \in call : a.params # None /\ Len(The(a.params)) = 2
    /\ wire[1].request.url = "https://bh.example.io:443/api/v2/search?q=a b&c=d&exact=True"

\* The JSON encoding the caller of request expects for its body object.
ClaimedJson(data) ==
    CASE data = <<>> -> "{}"
      [] Len(data) = 1 -> "{\"public\": false}"
      [] OTHER -> "{\"name\": \"q1\", \"query\": \"MATCH (n) RETURN n\"}"

\* C17: request sends a body exactly when a body object is given, and the
\* body sent is the JSON encoding of the object, an object without fields
\* included.
C17_BodySentWhenGiven ==
    InRequestCall =>
        \A i \in 1..Len(wire) : \A a \in call :
            /\ a.data = None <=> wire[i].request.data = None
            /\ a.data # None => wire[i].request.data = Some(ClaimedJson(The(a.data)))

\* -------------------------------------------------------------------------
\* Construction and signing (SpecSign)
\* -------------------------------------------------------------------------

\* An argument that is absent or empty, with no environment variable to
\* stand in for it.
NotGiven(arg, e, name) ==
    /\ arg \in {None, Some("")}
    /\ name \notin DOMAIN e \/ e[name] = ""

MissingCredential(a, e) ==
    \/ NotGiven(a.domain, e, "BLOODHOUND_DOMAIN")
    \/ NotGiven(a.token_id, e, "BLOODHOUND_TOKEN_ID")
    \/ NotGiven(a.token_key, e, "BLOODHOUND_TOKEN_KEY")

ConstructFails ==
    /\ pc = "idle"
    /\ op' = "construct"
    /\ \E a \in call' : MissingCredential(a, env)

\* C18: a construction with the domain, the token id or the token key absent
\* or empty, and no environment variable for it, raises BloodhoundAuthError;
\* it makes no HTTP exchange and leaves the caller with the client it had,
\* and without a client no request is ever issued.
C18_MissingCredentialRaises ==
    /\ [][ConstructFails =>
            /\ \E o \in outcome' : o.kind = "raise" /\ o.exc.type = "BloodhoundAuthError"
            /\ client' = client
            /\ wire' = wire]_vars
    /\ [](client = None => wire = <<>> /\ ~InRequestCall)

C18_Witness ==
    /\ op = "construct"
    /\ Ended
    /\ \E a \in call : a.domain = Some("") /\ a.token_id = None /\ MissingCredential(a, env)
    /\ env = DomainEnv
    /\ \E o \in outcome : o.kind = "raise" /\ o.exc.type = "BloodhoundAuthError"
    /\ client = None
    /\ wire = <<>>

SignatureOf(w) == w.request.headers["Signature"]

\* The five inputs of a signing: token key, method, URI, the first 13
\* characters of the timestamp, body.
SigningInputs(w) ==
    <<w.client.token_key, w.method, w.uri, SubSeq(w.datetime_formatted, 1, 13), w.body>>

\* C19: two signings with the same token key, method, URI, first 13
\* characters of the timestamp and body give the same Signature header,
\* whatever the token id, domain, port, scheme and the calls made before.
C19_SignatureDeterministic ==
    \A i, j \in 1..Len(wire) :
        SigningInputs(wire[i]) = SigningInputs(wire[j])
            => SignatureOf(wire[i]) = SignatureOf(wire[j])

\* Two signings in the same hour, at different instants, by clients that
\* share only the token key.
C19_Witness ==
    /\ Len(wire) = 2
    /\ SigningInputs(wire[1]) = SigningInputs(wire[2])
    /\ wire[1].client.token_id # wire[2].client.token_id
    /\ wire[1].client.domain # wire[2].client.domain
    /\ wire[1].client.port # wire[2].client.port
    /\ wire[1].client.scheme # wire[2].client.scheme
    /\ wire[1].datetime_formatted # wire[2].datetime_formatted
    /\ wire[1].body # None
    /\ SignatureOf(wire[1]) = SignatureOf(wire[2])

\* The message of the second HMAC stage of a signature.
SignedDate(w) == SignatureOf(w).b64.key.msg

\* C20: the first 13 characters of the RequestDate header of a request are
\* the message of the second HMAC stage of that request's signature.
C20_RequestDateIsSignedHour ==
    \A i \in 1..Len(wire) :
        SubSeq(wire[i].request.headers["RequestDate"], 1, 13) = SignedDate(wire[i])

\* A request sent after the clock moved into the next hour.
C20_Witness ==
    /\ Len(wire) = 2
    /\ SignedDate(wire[1]) = "2024-01-15T14"
    /\ SignedDate(wire[2]) = "2024-01-15T15"
    /\ wire[2].request.headers["RequestDate"] = Timestamps[3]

FiveHeaders == {"User-Agent", "Authorization", "RequestDate", "Signature", "Content-Type"}

\* The URL up to the path, and the rest of a URL sent by client c.
Origin(c) == c.scheme \o "://" \o c.domain \o ":" \o ToString(c.port)

SentUri(w) == SubSeq(w.request.url, Len(Origin(w.client)) + 1, Len(w.request.url))

\* The message of the third HMAC stage of a signature: the body.
SignedBody(w) == SignatureOf(w).b64.msg

\* C21: every HTTP request carries the five headers, with the fixed
\* User-Agent, Authorization "bhesignature <token id>" and Content-Type
\* application/json, and the method, URI and body signed are those sent.
C21_SignedIsSent ==
    \A i \in 1..Len(wire) :
        LET w == wire[i] IN
        /\ DOMAIN w.request.headers = FiveHeaders
        /\ w.request.headers["User-Agent"] = "bloodhound-api-client 0.1"
        /\ w.request.headers["Authorization"] = "bhesignature " \o w.client.token_id
        /\ w.request.headers["Content-Type"] = "application/json"
        /\ w.request.headers["RequestDate"] = w.datetime_formatted
        /\ SignedBody(w) = (IF w.request.data = None THEN "" ELSE The(w.request.data))
        /\ SignedOperation(w) = w.request.method \o SentUri(w)

\* -------------------------------------------------------------------------
\* validate_query
\* -------------------------------------------------------------------------

Validated == op = "validate_query" /\ Ended

\* What the caller of validate_query expects of each text.
EmptyTexts == {"", "  ", " \n\t"}

ReturnTexts ==
    {"MATCH (n) RETURN n", "  match (n) return n  ", "Match p=(a)-[*]->(b) Return p", "return 1"}

MatchTexts ==
    {"MATCH (n) RETURN n", "  match (n) return n  ", "Match p=(a)-[*]->(b) Return p",
     "MATCH (n) WHERE n.name = 'x' WITH collect(n) AS c", "match (n) delete n"}

HighTexts ==
    {"Match p=(a)-[*]->(b) Return p", "call db.labels()",
     "MATCH (n) WHERE n.name = 'x' WITH collect(n) AS c", "*"}

\* C22: validate_query makes no exchange; valid is false exactly for a text
\* that is empty after trimming, has_return and has_match tell whether the
\* text holds RETURN and MATCH in any case, and estimated_complexity is
\* "high" exactly when the text holds "*", "ALL" or "COLLECT" in any case,
\* "medium" otherwise.
C22_ValidateQueryChecks ==
    Validated =>
        /\ wire = <<>>
        /\ log = <<>>
        /\ \A o \in outcome :
            /\ o.kind = "return"
            /\ o.value.valid = (query \notin EmptyTexts)
            /\ o.value.checks.has_return = (query \in ReturnTexts)
            /\ o.value.checks.has_match = (query \in MatchTexts)
            /\ o.value.checks.estimated_complexity =
                   (IF query \in HighTexts THEN "high" ELSE "medium")

\* A lower-case text with "all" inside a word and no MATCH or RETURN.
C22_Witness ==
    /\ Validated
    /\ query = "call db.labels()"
    /\ \E o \in outcome :
        /\ o.value.valid
        /\ ~o.value.checks.has_match
        /\ o.value.checks.estimated_complexity = "high"

\* C23: the warnings of validate_query are warning strings only: the
\* "empty" warning exactly for a text empty after trimming, the "high
\* complexity" warning exactly when the complexity is "high", nothing else.
C23_WarningsAreStrings ==
    Validated =>
        \A o \in outcome :
            LET warnings == o.value.warnings IN
            /\ \A i \in 1..Len(warnings) :
                   warnings[i] \in {Some("Query appears empty"),
                                    Some("Query may have high complexity")}
            /\ (\E i \in 1..Len(warnings) : warnings[i] = Some("Query appears empty"))
                   <=> query \in EmptyTexts
            /\ (\E i \in 1..Len(warnings) : warnings[i] = Some("Query may have high complexity"))
                   <=> query \in HighTexts

\* -------------------------------------------------------------------------
\* The accessors
\* -------------------------------------------------------------------------

InAccessorCall == op = "accessor"

\* The accessor call in progress and the request it has dispatched.
Accessor == The(call).accessor

Dispatched == InAccessorCall /\ Len(wire) = 1

\* A key is in the query string, or in the JSON body, of a request.
QueryHas(w, key) ==
    Contains(w.uri, "?" \o key \o "=") \/ Contains(w.uri, "&" \o key \o "=")

BodyHas(w, key) == w.body # None /\ Contains(The(w.body), "\"" \o key \o "\": ")

Sends(w, key) == QueryHas(w, key) \/ BodyHas(w, key)

\* The optional filters and body fields of the saved-query methods: the key
\* on the wire and the argument of the caller.
OptionalFields(c) ==
    CASE c.accessor = "list_saved_queries" ->
           {<<"sortby", "sort_by">>, <<"name", "name">>, <<"query", "query">>,
            <<"userid", "user_id">>, <<"scope", "scope">>}
      [] c.accessor = "create_saved_query" -> {<<"description", "description">>}
      [] c.accessor = "update_saved_query" ->
           {<<"name", "name">>, <<"query", "query">>, <<"description", "description">>}
      [] c.accessor = "share_saved_query" -> {<<"userids", "user_ids">>, <<"public", "public">>}
      [] OTHER -> {}

ClaimedPage(c) ==
    "?limit=" \o (IF c.limit = None THEN "100" ELSE ToString(The(c.limit)))
    \o "&skip=" \o (IF c.skip = None THEN "0" ELSE ToString(The(c.skip)))
    \o "&type=list"

\* C25: a paginated accessor sends exactly limit, skip and type=list, with
\* the caller's limit and skip; a "get info" accessor (users, groups,
\* computers, OUs, GPOs, certificate templates, root CAs, enterprise CAs)
\* sends exactly counts=true; each returns what request returns.
C25_AccessorParams ==
    (Dispatched /\ Accessor \in PaginatedCalls \cup GetInfoCalls \cup AdcsInfoCalls) =>
        /\ Accessor \in PaginatedCalls =>
               wire[1].uri = Accessor.path \o ClaimedPage(Accessor)
        /\ Accessor \in GetInfoCalls \cup AdcsInfoCalls =>
               wire[1].uri = Accessor.path \o "?counts=true"
        /\ (Ended /\ HasStatus(log[1], Status2xx) /\ RequestResponse.body # BodyNotJson) =>
               outcome = Some(Return(ResponseJson(RequestResponse).v))

Probes == {"test_connection", "get_self_info"}

ProbeEnded == InAccessorCall /\ Ended /\ Accessor.accessor \in Probes

\* The request of a probe succeeded: it returned a decoded value and, for
\* test_connection, the value has the `data` field.
ProbeSucceeded ==
    /\ IsResponse(log[1])
    /\ StatusOf(log[1]) \notin Status4xx5xx
    /\ RequestResponse.body # BodyNotJson
    /\ Accessor.accessor = "test_connection" => RequestResponse.body = BodyData

\* C26: test_connection and get_self_info never raise; they return None on
\* every failure of the request (and test_connection on a body without
\* `data`), and a value other than None only when the request succeeded.
C26_ProbesNeverRaise ==
    ProbeEnded =>
        \A o \in outcome :
            /\ o.kind = "return"
            /\ o.value # None <=> ProbeSucceeded

\* test_connection on a read timeout, which request lets through.
C26_Witness ==
    /\ ProbeEnded
    /\ Accessor.accessor = "test_connection"
    /\ ~IsResponse(log[1])
    /\ log[1].exchange.cls = "ReadTimeout"
    /\ outcome = Some(Return(None))

\* -------------------------------------------------------------------------
\* Threads (SpecThreads)
\* -------------------------------------------------------------------------

\* The frames of all threads, the running one included.
AllFrames == {Frame} \cup {threads.frames[t] : t \in Suspended}

ExchangesOf(f) == [i \in 1..Len(f.log) |-> f.log[i].exchange]

SameCall(f, g) == f.op = g.op /\ f.max_retries = g.max_retries /\ f.call = g.call

\* g has been given the exchanges of f, and possibly more after them.
GivenSame(f, g) ==
    /\ Len(f.log) <= Len(g.log)
    /\ \A i \in 1..Len(f.log) : f.log[i].exchange = g.log[i].exchange

\* C27: under every interleaving of the threads' calls the client's
\* attributes stay what the constructor set, and a call that ended made the
\* attempts, slept the delays and got the outcome that any other call with
\* the same arguments and the same exchanges makes, whatever the other
\* threads did meanwhile.
C27_CallsAreIndependent ==
    /\ [][client' = client]_vars
    /\ [](\A f, g \in AllFrames :
            (f.pc = "done" /\ SameCall(f, g) /\ GivenSame(f, g)) =>
                /\ Len(g.log) = Len(f.log)
                /\ g.pc = "done" => (g.outcome = f.outcome /\ g.sleeps = f.sleeps))

\* Two retrying calls with the same arguments and exchanges, both ended
\* after a retry, their four exchanges on the one network.
C27_Witness ==
    /\ pc = "done"
    /\ InRetryCall
    /\ max_retries = 1
    /\ Len(log) = 2
    /\ Len(sleeps) = 1
    /\ Len(wire) = 4
    /\ \E t \in Suspended :
        /\ threads.frames[t].pc = "done"
        /\ SameCall(Frame, threads.frames[t])
        /\ ExchangesOf(threads.frames[t]) = ExchangesOf(Frame)
        /\ threads.frames[t].outcome = outcome

\* -------------------------------------------------------------------------
\* The retry loop, continued
\* -------------------------------------------------------------------------

\* The class of the failure of an attempt: "connection", "429", "5xx", or
\* "none" for an attempt that is not retried.
FailureClass(entry) ==
    IF RaisedType(entry, "BloodhoundConnectionError") THEN "connection"
    ELSE IF HasStatus(entry, {429}) /\ RaisedType(entry, "BloodhoundAPIError") THEN "429"
    ELSE IF HasStatus(entry, ServerStatuses) /\ RaisedType(entry, "BloodhoundAPIError") THEN "5xx"
    ELSE "none"

\* C28: in a call whose failures mix the classes (Connection, 429, >= 500)
\* the attempts are at most max_retries + 1 in all, and a failure that
\* follows a failure of another class, with a retry left, is followed by a
\* delay computed from its attempt number in the call: 2^k, or max(2^k, 10)
\* after a 429.
C28_BudgetAndExponentShared ==
    (InRetryCall /\ max_retries >= 0) =>
        /\ Len(log) <= max_retries + 1
        /\ \A i \in 2..Len(log) :
            (/\ FailureClass(log[i]) # "none"
             /\ FailureClass(log[i - 1]) \notin {"none", FailureClass(log[i])}
             /\ log[i].attempt < max_retries
             /\ Handled(i)) =>
                \E k \in 1..Len(sleeps) :
                    /\ sleeps[k].after = i - 1
                    /\ sleeps[k].secs = ClaimedDelay(log[i])

\* C29: an attempt that returns, or raises an API error for a status other
\* than 429 and below 500, ends the call there: no sleep and no further
\* attempt follow, and the caller gets that attempt's result or API error.
C29_OtherOutcomesEndTheCall ==
    InRetryCall =>
        \A i \in 1..Len(log) :
            (/\ FailureClass(log[i]) = "none"
             /\ log[i].result.kind = "return" \/ RaisedType(log[i], "BloodhoundAPIError")
             /\ Handled(i)) =>
                /\ i = Len(log)
                /\ ~SleptAfter(log[i].attempt)
                /\ pc \notin {"sleep", "for", "try"}
                /\ Ended => outcome = Some(log[i].result)

\* C30: with max_retries >= 0, and every exchange and sleep completing, a
\* call of run_query_with_retry always ends, by returning or raising; it
\* ends only after an attempt, and control never reaches the statement
\* after the loop.
C30_RetryTerminates ==
    /\ InRetryCall ~> (Ended /\ outcome # None)
    /\ [](InRetryCall /\ Ended => Len(log) >= 1)
    /\ [](pc # "after_loop")

\* A call that used its whole budget ended inside the loop.
C30_Witness ==
    /\ InRetryCall /\ Ended
    /\ max_retries >= 2
    /\ Len(log) = max_retries + 1
    /\ attempt = max_retries
    /\ \E o \in outcome : o.kind = "raise"

====
